---- MODULE Spec2Model ----
(***************************************************************************)
(* Chain-event synchronizer of teleport: the Indexer of crates/eth drives  *)
(* log retrieval, decoding and persistence into the SQLite store of        *)
(* crates/storage.  The store (tables chain_events, fids,                  *)
(* storage_allocations), the orchestrator's position (pc), the upstream    *)
(* chain and the retry loop of the RPC helpers are the state.              *)
(***************************************************************************)
EXTENDS Integers, Sequences, FiniteSets, TLC

VARIABLES
    chain,                 \* upstream: the logs the provider serves
    latest,                \* upstream: number of the latest block
    chain_events,          \* table chain_events
    fids,                  \* table fids
    signers,               \* table signers
    storage_allocations,   \* table storage_allocations
    next_uuid,             \* source of fresh Uuid::new_v4 values
    pc,                    \* position of the process inside Indexer::sync
    start_block,           \* sync's argument start_block
    end_block,             \* sync's argument end_block
    current_block,         \* sync's local current_block
    collected,             \* CollectedLogs of the current window
    block_timestamp_cache, \* Indexer.block_timestamp_cache (set of hashes)
    result,                \* what the last sync call produced
    calls,                 \* history: the sync calls made so far
    faults,                \* injected store / upstream failures left
    window_begin,          \* history: tables and cursor when the window began
    first_run,             \* history: range and tables after the first sync
    requested,             \* history: the get-logs ranges of the process
    shutdown,              \* Hub::start: ctrl-c received, the server returned
    gw                     \* one call of the RPC helpers in flight

storeVars == <<chain_events, fids, signers, storage_allocations, next_uuid>>
idxVars == <<pc, start_block, end_block, current_block, collected,
             block_timestamp_cache, result, calls>>
histVars == <<window_begin, first_run, requested, shutdown>>
vars == <<chain, latest, chain_events, fids, signers, storage_allocations,
          next_uuid,
          pc, start_block, end_block, current_block, collected,
          block_timestamp_cache, result, calls, faults, window_begin,
          first_run, requested, shutdown, gw>>

-----------------------------------------------------------------------------
(* Program constants *)

FARCASTER_START_BLOCK == 111816370
BLOCK_INTERVAL == 2000
MAX_PARAMS == 999
ChainEventParamsPerRow == 13
FidParamsPerRow == 5
TransferParamsPerRow == 2
RemoveUpdateParamsPerRow == 2
StorageAllocationParamsPerRow == 7
SignerParamsPerRow == 11
\* FARCASTER_EPOCH of time.rs is in milliseconds; in seconds:
FarcasterEpochSeconds == 1609459200
RentExpiryDays == 365
RentPeriodDays == 395

(* Bounds of the model *)

MaxRuns == 2
MaxFaults == 1
MaxRateLimited == 4
ExtraRows == 1

\* Option<T>::None of a log's metadata field
None == 0 - 1

-----------------------------------------------------------------------------
(* Upstream logs.  pos is the block the log sits in (what eth_getLogs      *)
(* filters on); the remaining fields are those of ethers' Log.             *)

Min(a, b) == IF a < b THEN a ELSE b

SetMax(S) == CHOOSE m \in S : \A x \in S : x <= m

BlockHash(b) == b + 7

Ed25519KeyLength == 32

\* `id` holds the bits 0..31 of the U256 of the event and `id_upper` its
\* bits 32..63 and 64..255.  `key` is the word at data[128..160], where the
\* bytes of the key start, and `key_len` the length the data gives for them.
Log(kind, off, tx, idx, id, to, from, recovery, units, removed) ==
    [kind |-> kind, pos |-> FARCASTER_START_BLOCK + off,
     block_number |-> FARCASTER_START_BLOCK + off,
     block_hash |-> BlockHash(FARCASTER_START_BLOCK + off),
     transaction_hash |-> tx, transaction_index |-> 0, log_index |-> idx,
     id |-> id, id_upper |-> <<0, 0>>, to |-> to, from |-> from,
     recovery |-> recovery, units |-> units, key |-> None,
     key_len |-> Ed25519KeyLength,
     removed |-> removed, wellformed |-> TRUE]

\* The logs upstreams hold: two registrations and a transfer in the first
\* window, a rent in the second, a reorged-away registration and a
\* registration whose transaction hash is absent.
Register1 == Log("register", 1, 11, 0, 1, 101, 0, 201, 0, FALSE)
Transfer1 == Log("transfer", 2, 12, 0, 1, 102, 101, 0, 0, FALSE)
Register2 == Log("register", 3, 13, 0, 2, 103, 0, 203, 0, FALSE)
Rent1 == Log("rent", 2001, 14, 0, 1, 101, 0, 0, 5, FALSE)
RemovedRegister == Log("register", 4, 15, 0, 3, 104, 0, 204, 0, TRUE)
NoHashRegister ==
    [Log("register", 5, 16, 0, 4, 105, 0, 205, 0, FALSE)
        EXCEPT !.transaction_hash = None]

\* A Register log whose data parse_log cannot decode
MalformedRegister ==
    [Log("register", 2, 20, 0, 5, 106, 0, 206, 0, FALSE)
        EXCEPT !.wellformed = FALSE]

\* A registration in a block the upstream mines after the process started
LateRegister == Log("register", 6, 21, 0, 6, 107, 0, 207, 0, FALSE)

Add1 == [Log("add", 2, 17, 0, 1, 0, 0, 0, 0, FALSE) EXCEPT !.key = 7001]

\* The removal of Add1's key, and the removal of a key no Add log carried
Remove1 == [Log("remove", 3, 18, 0, 1, 0, 0, 0, 0, FALSE) EXCEPT !.key = 7001]
RemoveUnknown ==
    [Log("remove", 3, 19, 0, 1, 0, 0, 0, 0, FALSE) EXCEPT !.key = 7002]

\* A recovery of Register1's fid to a new custody address
Recover1 == Log("recovery", 2, 22, 0, 1, 108, 101, 0, 0, FALSE)

\* An admin reset of Add1's key
AdminReset1 ==
    [Log("admin_reset", 3, 23, 0, 1, 0, 0, 0, 0, FALSE) EXCEPT !.key = 7001]

Upstreams ==
    { {},
      {Register1},
      {Add1},
      {Register1, Add1},
      {Register1, Add1, Remove1},
      {Register1, RemoveUnknown},
      {Register1, Add1, AdminReset1},
      {Register1, Recover1},
      {Register1, Transfer1, Register2},
      {Register1, Transfer1, Register2, Rent1},
      {Register1, RemovedRegister},
      {Register2, NoHashRegister},
      {Register1, MalformedRegister},
      {Register1, LateRegister} }

\* Heights of the upstream's head: when the process starts, and later
FirstHead == FARCASTER_START_BLOCK + 5
LaterHead == FARCASTER_START_BLOCK + 2001

HasMetadata(log) ==
    /\ log.block_hash # None
    /\ log.block_number # None
    /\ log.transaction_hash # None
    /\ log.transaction_index # None
    /\ log.log_index # None

Accepted(log) == HasMetadata(log) /\ ~log.removed /\ log.wellformed

LogLess(a, b) ==
    \/ a.pos < b.pos
    \/ a.pos = b.pos /\ a.transaction_index < b.transaction_index
    \/ a.pos = b.pos /\ a.transaction_index = b.transaction_index
       /\ a.log_index < b.log_index
    \/ a.pos = b.pos /\ a.transaction_index = b.transaction_index
       /\ a.log_index = b.log_index /\ a.id < b.id

RECURSIVE SortLogs(_)
SortLogs(S) ==
    IF S = {} THEN <<>>
    ELSE LET first == CHOOSE x \in S : \A y \in S \ {x} : LogLess(x, y)
         IN  <<first>> \o SortLogs(S \ {first})

\* Provider::get_block(hash).timestamp
BlockTimestamp(hash) ==
    FarcasterEpochSeconds + 1000 + (hash - FARCASTER_START_BLOCK)

-----------------------------------------------------------------------------
(* Rows.  Binary columns written by the bulk builders hold the hex text    *)
(* of the value (hex::encode), which is how HexEncode marks them.          *)

HexEncode(bytes) == <<"hex", bytes>>

\* A Vec<u8> bound to a query as it is: a BLOB value
Blob(bytes) == <<"blob", bytes>>

EventTypeIdRegister == "EVENT_TYPE_ID_REGISTER"
EventTypeStorageRent == "EVENT_TYPE_STORAGE_RENT"
EventTypeSigner == "EVENT_TYPE_SIGNER"

\* The row's transaction hash taken from the fresh uuid, not from the log
ChainEventRow_HashFromId(onchain_event, raw_event, uuid) ==
    [id |-> uuid,
     block_timestamp |-> onchain_event.block_timestamp,
     fid |-> onchain_event.fid,
     chain_id |-> onchain_event.chain_id,
     block_number |-> onchain_event.block_number,
     transaction_index |-> onchain_event.tx_index,
     log_index |-> onchain_event.log_index,
     type |-> onchain_event.type,
     block_hash |-> HexEncode(onchain_event.block_hash),
     transaction_hash |-> HexEncode(uuid),
     body |-> HexEncode(onchain_event.body),
     raw |-> HexEncode(raw_event)]

\* ChainEventRow::new: a fresh uuid as id, the envelope's fields copied
ChainEventRow(onchain_event, raw_event, uuid) ==
    [id |-> uuid,
     block_timestamp |-> onchain_event.block_timestamp,
     fid |-> onchain_event.fid,
     chain_id |-> onchain_event.chain_id,
     block_number |-> onchain_event.block_number,
     transaction_index |-> onchain_event.tx_index,
     log_index |-> onchain_event.log_index,
     type |-> onchain_event.type,
     block_hash |-> HexEncode(onchain_event.block_hash),
     transaction_hash |-> HexEncode(onchain_event.transaction_hash),
     body |-> HexEncode(onchain_event.body),
     raw |-> HexEncode(raw_event)]

\* The chain id of the configuration, handed to every process_*_log call
ChainId == 10

\* OnChainEvent { .. } as the process_*_log functions build it
OnChainEvent(type, log, timestamp, body) ==
    [type |-> type,
     chain_id |-> ChainId,
     block_number |-> log.block_number,
     block_hash |-> log.block_hash,
     block_timestamp |-> timestamp,
     transaction_hash |-> log.transaction_hash,
     log_index |-> log.log_index,
     fid |-> log.id,
     tx_index |-> log.transaction_index,
     body |-> body]

\* What a process_*_log call does before it builds rows: parse_log(..)?
\* returns Err on a log of the wrong shape, and every Option field of the
\* log is unwrapped.
DecodeStatus(log) ==
    IF ~log.wellformed THEN "err"
    ELSE IF ~HasMetadata(log) THEN "panic"
    ELSE "ok"

\* The fids row carrying the recovery address as custody address
process_register_log_RecoveryAsCustody(log, timestamp, uuid) ==
    LET body == [event_type |-> "Register", to |-> log.to, from |-> None,
                 recovery_address |-> log.recovery, key |-> None, units |-> 0,
                 expiry |-> 0]
        event_row == ChainEventRow(
            OnChainEvent(EventTypeIdRegister, log, timestamp, body),
            log.recovery, uuid)
    IN  [status |-> DecodeStatus(log),
         event_row |-> event_row,
         derived |-> [fid |-> log.id,
                      registered_at |-> timestamp,
                      chain_event_id |-> event_row.id,
                      custody_address |-> HexEncode(log.recovery),
                      recovery_address |-> HexEncode(log.recovery)]]

process_register_log(log, timestamp, uuid) ==
    LET body == [event_type |-> "Register", to |-> log.to, from |-> None,
                 recovery_address |-> log.recovery, key |-> None, units |-> 0,
                 expiry |-> 0]
        event_row == ChainEventRow(
            OnChainEvent(EventTypeIdRegister, log, timestamp, body),
            log.recovery, uuid)
    IN  [status |-> DecodeStatus(log),
         event_row |-> event_row,
         derived |-> [fid |-> log.id,
                      registered_at |-> timestamp,
                      chain_event_id |-> event_row.id,
                      custody_address |-> HexEncode(log.to),
                      recovery_address |-> HexEncode(log.recovery)]]

\* The update carrying the address the fid is transferred from
process_transfer_log_FromAddress(log, timestamp, uuid) ==
    LET body == [event_type |-> "Transfer", to |-> log.to, from |-> log.from,
                 recovery_address |-> None, key |-> None, units |-> 0,
                 expiry |-> 0]
        event_row == ChainEventRow(
            OnChainEvent(EventTypeIdRegister, log, timestamp, body),
            0, uuid)
    IN  [status |-> DecodeStatus(log),
         event_row |-> event_row,
         derived |-> [fid |-> log.id, custody_address |-> HexEncode(log.from)]]

\* parsed_log.id.as_u64() and parsed_log.id.as_u32(): U256::as_u64 and
\* U256::as_u32 panic on a value that does not fit; a value as_u64 panics
\* on does not fit 32 bits either
FitsU32(upper) == upper[1] = 0 /\ upper[2] = 0

process_transfer_log(log, timestamp, uuid) ==
    LET body == [event_type |-> "Transfer", to |-> log.to, from |-> log.from,
                 recovery_address |-> None, key |-> None, units |-> 0,
                 expiry |-> 0]
        event_row == ChainEventRow(
            OnChainEvent(EventTypeIdRegister, log, timestamp, body),
            0, uuid)
    IN  [status |-> IF DecodeStatus(log) # "ok" THEN DecodeStatus(log)
                    ELSE IF ~FitsU32(log.id_upper)
                         THEN "overflow"
                    ELSE "ok",
         event_row |-> event_row,
         derived |-> [fid |-> log.id, custody_address |-> HexEncode(log.to)]]

\* The update carrying the address the fid is recovered from
process_recovery_log_FromAddress(log, timestamp, uuid) ==
    LET body == [event_type |-> "Transfer", to |-> log.to, from |-> log.from,
                 recovery_address |-> None, key |-> None, units |-> 0,
                 expiry |-> 0]
        event_row == ChainEventRow(
            OnChainEvent(EventTypeIdRegister, log, timestamp, body),
            0, uuid)
    IN  [status |-> DecodeStatus(log),
         event_row |-> event_row,
         derived |-> [fid |-> log.id, custody_address |-> HexEncode(log.from)]]

\* process_recovery_log: the body of a transfer (event_type Transfer, an
\* empty recovery address) and the update of a transfer: fid and `to`
process_recovery_log(log, timestamp, uuid) ==
    LET body == [event_type |-> "Transfer", to |-> log.to, from |-> log.from,
                 recovery_address |-> None, key |-> None, units |-> 0,
                 expiry |-> 0]
        event_row == ChainEventRow(
            OnChainEvent(EventTypeIdRegister, log, timestamp, body),
            0, uuid)
    IN  [status |-> DecodeStatus(log),
         event_row |-> event_row,
         derived |-> [fid |-> log.id, custody_address |-> HexEncode(log.to)]]

\* The allocation naming the chain event built before its own
process_rent_log_PreviousEvent(log, timestamp, uuid) ==
    LET expiry == log.units + RentPeriodDays * 24 * 60 * 60
        body == [event_type |-> "Rent", to |-> log.to, from |-> None,
                 recovery_address |-> None, key |-> None,
                 units |-> log.units, expiry |-> expiry]
        event_row == ChainEventRow(
            OnChainEvent(EventTypeStorageRent, log, timestamp, body),
            log.units, uuid)
    IN  [status |-> IF DecodeStatus(log) = "ok" THEN "ok" ELSE "panic",
         event_row |-> event_row,
         derived |-> [id |-> uuid,
                      rented_at |-> 0,
                      expires_at |-> expiry,
                      chain_event_id |-> event_row.id - 1,
                      fid |-> log.id,
                      units |-> log.units,
                      payer |-> HexEncode(log.to)]]

\* process_rent_log unwraps parse_log's result, so a log of the wrong
\* shape panics; expiry is computed from units, rented_at is written as 0.
\* The payer of a Rent log is carried in the log's field to.
process_rent_log(log, timestamp, uuid) ==
    LET expiry == log.units + RentPeriodDays * 24 * 60 * 60
        body == [event_type |-> "Rent", to |-> log.to, from |-> None,
                 recovery_address |-> None, key |-> None,
                 units |-> log.units, expiry |-> expiry]
        event_row == ChainEventRow(
            OnChainEvent(EventTypeStorageRent, log, timestamp, body),
            log.units, uuid)
    IN  [status |-> IF DecodeStatus(log) = "ok" THEN "ok" ELSE "panic",
         event_row |-> event_row,
         derived |-> [id |-> uuid,
                      rented_at |-> 0,
                      expires_at |-> expiry,
                      chain_event_id |-> event_row.id,
                      fid |-> log.id,
                      units |-> log.units,
                      payer |-> HexEncode(log.to)]]

\* process_add_log: indexes into the log's data panic on a log of the
\* wrong shape; added_at is written as "0".  The key is the 32 bytes of
\* H256::from_slice(&log.data[128..160]), whatever length the data gives,
\* so the assertion on the length of these bytes always passes.  The
\* signer row has an id of its own; the tables being separate, the event's
\* uuid stands for it.
process_add_log(log, timestamp, uuid) ==
    LET body == [event_type |-> "Add", to |-> None, from |-> None,
                 recovery_address |-> None, key |-> log.key, units |-> 0,
                 expiry |-> 0]
        event_row == ChainEventRow(
            OnChainEvent(EventTypeSigner, log, timestamp, body),
            log.key, uuid)
    IN  [status |-> IF DecodeStatus(log) = "ok" THEN "ok" ELSE "panic",
         event_row |-> event_row,
         derived |-> [id |-> uuid,
                      added_at |-> "0",
                      removed_at |-> None,
                      fid |-> log.id,
                      add_chain_event_id |-> event_row.id,
                      remove_chain_event_id |-> None,
                      key |-> HexEncode(log.key)]]

\* SignerRow::get_by_key: the query of signer_metadata_by_key.sql with the
\* key's bytes bound, fetch_one: Err(RowNotFound) when no row has that key
SignerRow_get_by_key(table, key) ==
    IF \E r \in table : r.key = Blob(key) THEN "found" ELSE "row_not_found"

\* process_remove_log: the key's signer is looked up in the store with `?`
\* before the row is built; the update names the key and the event's id
process_remove_log(log, timestamp, uuid) ==
    LET body == [event_type |-> "Remove", to |-> None, from |-> None,
                 recovery_address |-> None, key |-> log.key, units |-> 0,
                 expiry |-> 0]
        event_row == ChainEventRow(
            OnChainEvent(EventTypeSigner, log, timestamp, body),
            log.key, uuid)
    IN  [status |-> IF ~log.wellformed THEN "panic"
                    ELSE IF SignerRow_get_by_key(signers, log.key) # "found"
                         THEN "lookup_err"
                    ELSE IF ~HasMetadata(log) THEN "panic"
                    ELSE "ok",
         event_row |-> event_row,
         derived |-> [key |-> HexEncode(log.key),
                      remove_chain_event_id |-> event_row.id]]

\* process_admin_reset_log: the key's signer is looked up in the store with
\* `?` before the event row is built; the pair (key, event id) it returns
\* is collected by persist_many_admin_reset_logs and never written
process_admin_reset_log(log, timestamp, uuid) ==
    LET body == [event_type |-> "AdminReset", to |-> None, from |-> None,
                 recovery_address |-> None, key |-> log.key, units |-> 0,
                 expiry |-> 0]
        event_row == ChainEventRow(
            OnChainEvent(EventTypeSigner, log, timestamp, body),
            log.key, uuid)
    IN  [status |-> IF ~log.wellformed THEN "panic"
                    ELSE IF SignerRow_get_by_key(signers, log.key) # "found"
                         THEN "lookup_err"
                    ELSE IF ~HasMetadata(log) THEN "panic"
                    ELSE "ok",
         event_row |-> event_row,
         derived |-> [key |-> HexEncode(log.key),
                      remove_chain_event_id |-> event_row.id]]

process_log(kind, log, timestamp, uuid) ==
    CASE kind = "register" -> process_register_log(log, timestamp, uuid)
      [] kind = "transfer" -> process_transfer_log(log, timestamp, uuid)
      [] kind = "recovery" -> process_recovery_log(log, timestamp, uuid)
      [] kind = "add" -> process_add_log(log, timestamp, uuid)
      [] kind = "remove" -> process_remove_log(log, timestamp, uuid)
      [] kind = "admin_reset" ->
           process_admin_reset_log(log, timestamp, uuid)
      [] kind = "rent" -> process_rent_log(log, timestamp, uuid)

-----------------------------------------------------------------------------
(* The store.  A statement is one SQL string of a bulk builder; a          *)
(* transaction works on its own copy of the tables and the copy replaces   *)
(* the tables at commit.                                                   *)

Tables == [chain_events |-> chain_events, fids |-> fids,
           signers |-> signers,
           storage_allocations |-> storage_allocations]

EmptyTables == [chain_events |-> {}, fids |-> {}, signers |-> {},
                storage_allocations |-> {}]

Range(seq) == {seq[i] : i \in 1..Len(seq)}

\* slice::chunks(n): consecutive pieces of n rows, the last one shorter
RECURSIVE Chunks(_, _)
Chunks(rows, n) ==
    IF Len(rows) = 0 THEN <<>>
    ELSE IF Len(rows) <= n THEN <<rows>>
    ELSE <<SubSeq(rows, 1, n)>> \o Chunks(SubSeq(rows, n + 1, Len(rows)), n)

ChainEventRowsPerBatch == MAX_PARAMS \div ChainEventParamsPerRow
FidRowsPerBatch == MAX_PARAMS \div FidParamsPerRow
TransfersPerBatch == MAX_PARAMS \div TransferParamsPerRow
RemoveUpdatesPerBatch == MAX_PARAMS \div RemoveUpdateParamsPerRow
StorageAllocationRowsPerBatch == MAX_PARAMS \div StorageAllocationParamsPerRow
SignerRowsPerBatch == MAX_PARAMS \div SignerParamsPerRow

Statements(op, rows, per_batch) ==
    LET chunks == Chunks(rows, per_batch)
    IN  [i \in 1..Len(chunks) |-> [op |-> op, rows |-> chunks[i]]]

ChainEventRow_generate_bulk_insert_queries(rows) ==
    Statements("insert_chain_events", rows, ChainEventRowsPerBatch)

FidRow_generate_bulk_insert_queries(rows) ==
    Statements("insert_fids", rows, FidRowsPerBatch)

FidRow_generate_bulk_transfer_queries(transfers) ==
    Statements("update_custody_address", transfers, TransfersPerBatch)

SignerRow_generate_bulk_insert_queries(rows) ==
    Statements("insert_signers", rows, SignerRowsPerBatch)

SignerRow_generate_bulk_remove_update_queries(updates) ==
    Statements("update_remove_chain_event", updates, RemoveUpdatesPerBatch)

StorageAllocationRow_generate_bulk_insert_queries(rows) ==
    Statements("insert_storage_allocations", rows,
               StorageAllocationRowsPerBatch)

EventKey(e) == <<e.transaction_hash, e.log_index>>

\* Schema of the migrations: chain_events(id PRIMARY KEY,
\* UNIQUE(transaction_hash, log_index))
ChainEventsConflict(table, rows) ==
    LET new == Range(rows)
    IN  \/ {e.id : e \in new} \cap {e.id : e \in table} # {}
        \/ {EventKey(e) : e \in new} \cap {EventKey(e) : e \in table} # {}
        \/ Cardinality({e.id : e \in new}) # Len(rows)
        \/ Cardinality({EventKey(e) : e \in new}) # Len(rows)

\* Schema of the migrations: fids(fid PRIMARY KEY)
FidsConflict(table, rows) ==
    \/ {f.fid : f \in Range(rows)} \cap {f.fid : f \in table} # {}
    \/ Cardinality({f.fid : f \in Range(rows)}) # Len(rows)

SignerKey(r) == <<r.fid, r.key>>

\* Schema of the migrations: signers(UNIQUE(fid, key))
SignersConflict(table, rows) ==
    \/ {SignerKey(r) : r \in Range(rows)}
          \cap {SignerKey(r) : r \in table} # {}
    \/ Cardinality({SignerKey(r) : r \in Range(rows)}) # Len(rows)

\* What a derived row names its chain event by: the event's id in the rows
\* of crates/storage, transaction hash and log index in the rows that
\* lib/eth builds
EventRef(row) ==
    IF "chain_event_id" \in DOMAIN row THEN <<"id", row.chain_event_id>>
    ELSE IF "add_chain_event_id" \in DOMAIN row
         THEN <<"id", row.add_chain_event_id>>
         ELSE <<"log", row.transaction_hash, row.log_index>>

EventRefs(events) ==
    {<<"id", e.id>> : e \in events}
    \cup {<<"log", e.transaction_hash, e.log_index>> : e \in events}

\* Schema of the migrations: a derived row REFERENCES its chain_events row
ForeignKeyViolation(events, rows) ==
    {EventRef(r) : r \in Range(rows)} \ EventRefs(events) # {}

\* The rows the statement names leaving the table
UpdateCustodyAddress_DeletesNamedRows(table, transfers) ==
    {row \in table :
        \A i \in 1..Len(transfers) : transfers[i].fid # row.fid}

\* UPDATE fids SET custody_address = CASE fid WHEN f THEN 'hex' ... END
\* WHERE fid IN (..): the first WHEN that names the row's fid decides
UpdateCustodyAddress(table, transfers) ==
    LET named(row) == {i \in 1..Len(transfers) : transfers[i].fid = row.fid}
        first(row) == CHOOSE i \in named(row) : \A j \in named(row) : i <= j
    IN  { IF named(row) = {} THEN row
          ELSE [row EXCEPT
                   !.custody_address = transfers[first(row)].custody_address]
          : row \in table }

\* One statement against the transaction's tables
Execute(t, stmt) ==
    CASE stmt.op = "insert_chain_events" ->
           IF ChainEventsConflict(t.chain_events, stmt.rows)
           THEN [ok |-> FALSE, t |-> t]
           ELSE [ok |-> TRUE,
                 t |-> [t EXCEPT !.chain_events = @ \cup Range(stmt.rows)]]
      [] stmt.op = "insert_fids" ->
           IF \/ FidsConflict(t.fids, stmt.rows)
              \/ ForeignKeyViolation(t.chain_events, stmt.rows)
           THEN [ok |-> FALSE, t |-> t]
           ELSE [ok |-> TRUE, t |-> [t EXCEPT !.fids = @ \cup Range(stmt.rows)]]
      [] stmt.op = "update_custody_address" ->
           [ok |-> TRUE,
            t |-> [t EXCEPT !.fids = UpdateCustodyAddress(@, stmt.rows)]]
      [] stmt.op = "insert_signers" ->
           IF \/ SignersConflict(t.signers, stmt.rows)
              \/ ForeignKeyViolation(t.chain_events, stmt.rows)
           THEN [ok |-> FALSE, t |-> t]
           ELSE [ok |-> TRUE,
                 t |-> [t EXCEPT !.signers = @ \cup Range(stmt.rows)]]
      [] stmt.op = "update_remove_chain_event" ->
           \* "UPDATE signers SET remove_chain_event_id = CASE key WHEN ?
           \* THEN ? END WHERE key IN (?)" with the values appended after
           \* the closing parenthesis and nothing bound: not a statement
           [ok |-> FALSE, t |-> t]
      [] stmt.op = "insert_storage_allocations" ->
           IF ForeignKeyViolation(t.chain_events, stmt.rows)
           THEN [ok |-> FALSE, t |-> t]
           ELSE [ok |-> TRUE,
                 t |-> [t EXCEPT !.storage_allocations =
                                     @ \cup Range(stmt.rows)]]

\* The statements of a transaction in order, each through `?`: the first
\* failure drops the transaction (rollback).  fail_at names the statement
\* the store fails on its own account (Len + 1: the commit; 0: none).
RECURSIVE ExecuteAll(_, _, _, _)
ExecuteAll(t, stmts, i, fail_at) ==
    IF i > Len(stmts) THEN [ok |-> fail_at # Len(stmts) + 1, t |-> t]
    ELSE IF i = fail_at THEN [ok |-> FALSE, t |-> t]
    ELSE LET r == Execute(t, stmts[i])
         IN  IF r.ok THEN ExecuteAll(r.t, stmts, i + 1, fail_at) ELSE r

Transaction(tables, stmts, fail_at) ==
    LET r == ExecuteAll(tables, stmts, 1, fail_at)
    IN  IF r.ok THEN [ok |-> TRUE, tables |-> r.t]
        ELSE [ok |-> FALSE, tables |-> tables]

\* ChainEventRow::max_block_number: the query of max_block_number.sql,
\* 0 on an empty table
max_block_number(table) ==
    IF table = {} THEN 0 ELSE SetMax({e.block_number : e \in table})

\* The cursor left on the highest stored block
get_start_block_SameBlock(max_block_num) ==
    IF max_block_num = 0 THEN FARCASTER_START_BLOCK ELSE max_block_num

get_start_block(max_block_num) ==
    IF max_block_num = 0 THEN FARCASTER_START_BLOCK ELSE max_block_num + 1

GetStartBlock == get_start_block(max_block_number(chain_events))

\* max_block_number(..).await.unwrap_or(FARCASTER_START_BLOCK as i64) when
\* the query returns Err
GetStartBlockQueryFailed == get_start_block(FARCASTER_START_BLOCK)

-----------------------------------------------------------------------------
(* Indexer of crates/eth *)

Kinds == {"register", "transfer", "recovery", "add", "remove", "admin_reset",
          "rent"}

\* The order in which Indexer::sync hands a window's logs to the store
KindOrder == <<"register", "transfer", "recovery", "add", "remove",
               "admin_reset", "rent">>

\* The loop body going on to the next window after its first step
NextPc_NextWindowAtOnce(kind) == "window_end"

NextPc(kind) ==
    CASE kind = "register" -> "transfer"
      [] kind = "transfer" -> "recovery"
      [] kind = "recovery" -> "add"
      [] kind = "add" -> "remove"
      [] kind = "remove" -> "admin_reset"
      [] kind = "admin_reset" -> "rent"
      [] kind = "rent" -> "window_end"

\* get_*_logs: Filter::new().from_block(start).to_block(end) against the
\* blocks the upstream has
get_logs_result(kind, from_block, to_block) ==
    SortLogs({l \in chain : /\ l.kind = kind
                            /\ from_block <= l.pos
                            /\ l.pos <= to_block
                            /\ l.pos <= latest})

\* Every log that has a block hash given the timestamp of the first one
fetch_event_timestamps_FirstForAll(events) ==
    LET hashed == SelectSeq(events, LAMBDA e : e.block_hash # None)
    IN  [i \in 1..Len(hashed) |-> BlockTimestamp(hashed[1].block_hash)]

\* Indexer::fetch_event_timestamps: one timestamp for each log that has a
\* block hash, in order; logs without a block hash contribute none
fetch_event_timestamps(events) ==
    LET hashed == SelectSeq(events, LAMBDA e : e.block_hash # None)
    IN  [i \in 1..Len(hashed) |-> BlockTimestamp(hashed[i].block_hash)]

\* Block hashes fetch_event_timestamps has to ask the provider for
UncachedHashes(events, cache) ==
    {events[i].block_hash : i \in 1..Len(events)} \ (cache \cup {None})

\* The bulk builders a persist_many_*_logs call uses for its derived rows
DerivedQueries(kind, rows) ==
    CASE kind = "register" -> FidRow_generate_bulk_insert_queries(rows)
      [] kind = "transfer" -> FidRow_generate_bulk_transfer_queries(rows)
      [] kind = "recovery" -> FidRow_generate_bulk_transfer_queries(rows)
      [] kind = "add" -> SignerRow_generate_bulk_insert_queries(rows)
      [] kind = "remove" ->
           SignerRow_generate_bulk_remove_update_queries(rows)
      \* persist_many_admin_reset_logs: the event rows only
      [] kind = "admin_reset" -> <<>>
      [] kind = "rent" ->
           StorageAllocationRow_generate_bulk_insert_queries(rows)

\* The loop of persist_many_*_logs: logs zipped with timestamps, each
\* pair through process_*_log with a fresh uuid
ProcessedLogs(kind, logs, timestamps, uuid0) ==
    [i \in 1..Min(Len(logs), Len(timestamps)) |->
        process_log(kind, logs[i], timestamps[i], uuid0 + i - 1)]

\* The statements of persist_many_*_logs' transaction: the chain-event
\* statements, then the derived statements
PersistStatements(kind, processed) ==
    ChainEventRow_generate_bulk_insert_queries(
        [i \in 1..Len(processed) |-> processed[i].event_row])
    \o DerivedQueries(kind,
        [i \in 1..Len(processed) |-> processed[i].derived])

\* persist_many_*_logs: the first pair that does not decode ends the call
\* before the transaction begins; otherwise one transaction and its commit
persist_many_logs(kind, tables, logs, timestamps, uuid0, fail_at) ==
    LET processed == ProcessedLogs(kind, logs, timestamps, uuid0)
        bad == {i \in 1..Len(processed) : processed[i].status # "ok"}
        first_bad == CHOOSE i \in bad : \A j \in bad : i <= j
        r == Transaction(tables, PersistStatements(kind, processed), fail_at)
    IN  IF bad # {}
        THEN [outcome |-> CASE processed[first_bad].status = "err" ->
                                 "decode_err"
                            [] processed[first_bad].status = "lookup_err" ->
                                 "lookup_err"
                            [] processed[first_bad].status = "overflow" ->
                                 "cast_panic"
                            [] OTHER -> "unwrap_none",
              tables |-> tables]
        ELSE [outcome |-> IF r.ok THEN "ok" ELSE "write_err",
              tables |-> r.tables]

NoLogs == [k \in Kinds |-> <<>>]

StartArgs == {FARCASTER_START_BLOCK, FARCASTER_START_BLOCK + 4}

EndArgs == {FARCASTER_START_BLOCK + 3, LaterHead}

\* Rows without the random ids, to compare contents of two stores
Contents(tables) ==
    [chain_events |-> {[e EXCEPT !.id = 0] : e \in tables.chain_events},
     fids |-> {[f EXCEPT !.chain_event_id = 0] : f \in tables.fids},
     signers |-> {[r EXCEPT !.id = 0, !.add_chain_event_id = 0]
                     : r \in tables.signers},
     storage_allocations |->
         {IF "id" \in DOMAIN a
          THEN [a EXCEPT !.id = 0, !.chain_event_id = 0] ELSE a
             : a \in tables.storage_allocations}]

GatewayIdle == [status |-> "idle", fn |-> "none", rate_limited |-> 0,
                final |-> "none", pending |-> 0, attempts |-> 0,
                delivered |-> 0, outcome |-> "none"]

\* An empty store, a process that has not started, no call in flight
InitProcess ==
    /\ latest = FirstHead
    /\ chain_events = {}
    /\ fids = {}
    /\ signers = {}
    /\ storage_allocations = {}
    /\ next_uuid = 1
    /\ pc = "idle"
    /\ start_block = 0
    /\ end_block = 0
    /\ current_block = 0
    /\ collected = NoLogs
    /\ block_timestamp_cache = {}
    /\ result = "none"
    /\ calls = <<>>
    /\ faults = MaxFaults
    /\ window_begin = [tables |-> EmptyTables,
                       cursor |-> FARCASTER_START_BLOCK]
    /\ first_run = [done |-> FALSE, contents |-> Contents(EmptyTables)]
    /\ requested = <<>>
    /\ shutdown = FALSE
    /\ gw = GatewayIdle

Init == chain \in Upstreams /\ InitProcess

\* The upstream mines blocks while the process runs
NewBlocks ==
    /\ latest < LaterHead
    /\ latest' = LaterHead
    /\ UNCHANGED <<chain, storeVars, idxVars, faults, histVars, gw>>

\* Entry of Indexer::sync(start_block, end_block), in a fresh process or
\* after an earlier call returned
Enter(by, a, b) ==
    /\ pc \in {"idle", "returned", "panicked", "stopped",
              "subscribe_returned"}
    /\ Len(calls) < MaxRuns
    /\ calls' = Append(calls, [by |-> by, a |-> a, b |-> b])
    /\ start_block' = a
    /\ end_block' = b
    /\ current_block' = a
    /\ collected' = NoLogs
    /\ block_timestamp_cache' = IF pc \in {"panicked", "stopped"}
                                THEN {}
                                ELSE block_timestamp_cache
    /\ IF a <= b
       THEN pc' = "collect" /\ result' = "none" /\ UNCHANGED first_run
       ELSE /\ pc' = "returned"
            /\ result' = "ok"
            /\ first_run' = IF Len(calls) = 0
                            THEN [done |-> TRUE,
                                  contents |-> Contents(Tables)]
                            ELSE first_run
    /\ requested' = IF by = "subscribe" THEN requested ELSE <<>>
    /\ shutdown' = IF by = "subscribe" THEN shutdown ELSE FALSE
    /\ UNCHANGED <<chain, latest, storeVars, window_begin, gw>>

CallSync ==
    \E a \in StartArgs, b \in EndArgs :
        /\ b <= latest
        /\ Enter("sync", a, b)
        /\ UNCHANGED faults

\* Hub::start: get_latest_block().unwrap(), get_start_block(), then
\* sync(start, latest).  The latest-block query goes to the provider as is.
HubStart ==
    \/ Enter("hub", GetStartBlock, latest) /\ UNCHANGED faults
    \/ \* the store fails the query of get_start_block
       /\ faults > 0
       /\ faults' = faults - 1
       /\ Enter("hub", GetStartBlockQueryFailed, latest)
    \/ /\ pc \in {"idle", "returned", "panicked", "stopped",
                 "subscribe_returned"}
       /\ Len(calls) < MaxRuns
       /\ faults > 0
       /\ faults' = faults - 1
       /\ pc' = "panicked"
       /\ result' = "latest_block_err"
       /\ UNCHANGED <<chain, latest, storeVars, start_block, end_block,
                      current_block, collected, block_timestamp_cache,
                      calls, histVars, gw>>

\* Hub::start after its sync returned Ok: the subscribe future is created
\* but not polled, the gRPC server runs until ctrl-c is received
CtrlC ==
    /\ pc = "returned"
    /\ result = "ok"
    /\ Len(calls) >= 1
    /\ calls[Len(calls)].by = "hub"
    /\ ~shutdown
    /\ shutdown' = TRUE
    /\ UNCHANGED <<chain, latest, storeVars, idxVars, faults, window_begin,
                   first_run, requested, gw>>

\* Indexer::subscribe is running: Hub::start's sync has returned Ok, the
\* server has returned on ctrl-c and subscribe_task is awaited, or a tick of
\* it has ended
SubscribeRunning ==
    /\ shutdown
    /\ pc = "returned"
    /\ result = "ok"
    /\ Len(calls) >= 1
    /\ calls[Len(calls)].by \in {"hub", "subscribe"}

SubscribeCurrentBlock_SkipsABlock == calls[Len(calls)].b + 2

\* The block subscribe's current_block holds: latest_block + 1 of the call
\* before
SubscribeCurrentBlock == calls[Len(calls)].b + 1

\* Between two ticks the provider comes to answer from a node that is
\* behind: the latest block it reports is lower than one it reported before
LatestFallsBack ==
    /\ SubscribeRunning
    /\ latest > FirstHead
    /\ latest' = FirstHead
    /\ UNCHANGED <<chain, storeVars, idxVars, faults, histVars, gw>>

\* One tick of subscribe's loop: get_latest_block().await?, then
\* sync(current_block, latest_block)
SubscribeTick ==
    /\ SubscribeRunning
    /\ \/ Enter("subscribe", SubscribeCurrentBlock, latest)
          /\ UNCHANGED faults
       \/ /\ Len(calls) < MaxRuns
          /\ faults > 0
          /\ faults' = faults - 1
          /\ pc' = "subscribe_returned"
          /\ result' = "latest_block_err"
          /\ UNCHANGED <<chain, latest, storeVars, start_block, end_block,
                         current_block, collected, block_timestamp_cache,
                         calls, histVars, gw>>

\* self.sync(current_block, latest_block).await.unwrap() on an Err
SubscribeUnwrap ==
    /\ pc = "returned"
    /\ result = "err"
    /\ Len(calls) >= 1
    /\ calls[Len(calls)].by = "subscribe"
    /\ pc' = "panicked"
    /\ UNCHANGED <<chain, latest, storeVars, start_block, end_block,
                   current_block, collected, block_timestamp_cache, result,
                   calls, faults, histVars, gw>>

\* The contract whose get_<kind>_logs fetches the logs of a kind
ContractOf(kind) ==
    CASE kind \in {"register", "transfer", "recovery"} -> "id_registry"
      [] kind \in {"add", "remove", "admin_reset"} -> "key_registry"
      [] kind = "rent" -> "storage_registry"

\* The filters of the get-logs requests collect_logs joins: one
\* get_<kind>_logs future for each kind of event, its filter naming the
\* contract's address and the signature topic of that kind
CollectFilters == {[address |-> ContractOf(k), topic0 |-> {k}] : k \in Kinds}

\* Top of the loop body: collect_logs(current_block, current_block + 2000)
CollectLogs ==
    /\ pc = "collect"
    /\ window_begin' = [tables |-> Tables, cursor |-> GetStartBlock]
    /\ requested' = Append(requested,
                           [call |-> Len(calls), from |-> current_block,
                            to |-> current_block + BLOCK_INTERVAL,
                            filters |-> CollectFilters])
    /\ UNCHANGED shutdown
    /\ \/ /\ collected' =
                [k \in Kinds |->
                    get_logs_result(k, current_block,
                                    current_block + BLOCK_INTERVAL)]
          /\ pc' = "register"
          /\ UNCHANGED <<result, faults>>
       \/ /\ faults > 0
          /\ faults' = faults - 1
          /\ pc' = "returned"
          /\ result' = "err"
          /\ UNCHANGED collected
    /\ UNCHANGED <<chain, latest, storeVars, start_block, end_block,
                   current_block, block_timestamp_cache, calls, first_run, gw>>

\* if collected_logs.<kind>.len() > 0 { self.sync_<kind>_logs(..).await? }
SyncLogs(kind) ==
    /\ pc = kind
    /\ LET logs == collected[kind]
           timestamps == fetch_event_timestamps(logs)
           uncached == UncachedHashes(logs, block_timestamp_cache)
           processed == ProcessedLogs(kind, logs, timestamps, next_uuid)
           stmts == PersistStatements(kind, processed)
       IN  IF Len(logs) = 0
           THEN /\ pc' = NextPc(kind)
                /\ UNCHANGED <<storeVars, block_timestamp_cache, result,
                               faults>>
           ELSE \/ \* get_block_timestamp(..).await.unwrap() on an error
                   /\ uncached # {}
                   /\ faults > 0
                   /\ faults' = faults - 1
                   /\ pc' = "panicked"
                   /\ result' = "timestamp_err"
                   /\ UNCHANGED <<storeVars, block_timestamp_cache>>
                \/ \E fail_at \in 0..(Len(stmts) + 1) :
                      LET r == persist_many_logs(kind, Tables, logs,
                                                 timestamps, next_uuid,
                                                 fail_at)
                      IN  /\ fail_at > 0 => faults > 0
                          /\ fail_at > 0 => r.outcome = "write_err"
                          /\ faults' = IF fail_at > 0 THEN faults - 1
                                       ELSE faults
                          /\ block_timestamp_cache' =
                                 block_timestamp_cache \cup uncached
                          /\ next_uuid' = next_uuid + Len(processed)
                          /\ chain_events' = r.tables.chain_events
                          /\ fids' = r.tables.fids
                          /\ signers' = r.tables.signers
                          /\ storage_allocations' =
                                 r.tables.storage_allocations
                          /\ IF r.outcome = "ok"
                             THEN pc' = NextPc(kind) /\ UNCHANGED result
                             ELSE pc' = "panicked" /\ result' = r.outcome
    /\ UNCHANGED <<chain, latest, start_block, end_block, current_block,
                   collected, calls, histVars, gw>>

\* The bottom of the loop body without self.block_timestamp_cache.clear()
WindowEnd_KeepsCache ==
    /\ pc = "window_end"
    /\ UNCHANGED block_timestamp_cache
    /\ current_block' = current_block + BLOCK_INTERVAL + 1
    /\ IF current_block' <= end_block
       THEN pc' = "collect" /\ UNCHANGED <<result, first_run>>
       ELSE /\ pc' = "returned"
            /\ result' = "ok"
            /\ first_run' = IF Len(calls) = 1
                            THEN [done |-> TRUE,
                                  contents |-> Contents(Tables)]
                            ELSE first_run
    /\ UNCHANGED <<chain, latest, storeVars, start_block, end_block,
                   collected, calls, faults, window_begin, requested,
                   shutdown, gw>>

\* Bottom of the loop body and the loop condition
WindowEnd ==
    /\ pc = "window_end"
    /\ block_timestamp_cache' = {}
    /\ current_block' = current_block + BLOCK_INTERVAL + 1
    /\ IF current_block' <= end_block
       THEN pc' = "collect" /\ UNCHANGED <<result, first_run>>
       ELSE /\ pc' = "returned"
            /\ result' = "ok"
            /\ first_run' = IF Len(calls) = 1
                            THEN [done |-> TRUE,
                                  contents |-> Contents(Tables)]
                            ELSE first_run
    /\ UNCHANGED <<chain, latest, storeVars, start_block, end_block,
                   collected, calls, faults, window_begin, requested,
                   shutdown, gw>>

\* The process is stopped between two steps of a window
Stop ==
    /\ pc \in Kinds
    /\ pc' = "stopped"
    /\ result' = "stopped"
    /\ UNCHANGED <<chain, latest, storeVars, start_block, end_block,
                   current_block, collected, block_timestamp_cache, calls,
                   faults, histVars, gw>>

Next ==
    \/ NewBlocks
    \/ CallSync
    \/ HubStart
    \/ CtrlC
    \/ LatestFallsBack
    \/ SubscribeTick
    \/ SubscribeUnwrap
    \/ CollectLogs
    \/ \E kind \in Kinds : SyncLogs(kind)
    \/ WindowEnd
    \/ Stop

Spec == Init /\ [][Next]_vars

\* The same process against upstreams that hold logs of unusual shape: a
\* registration without a block hash between two registrations, and one
\* after them
NoBlockHashRegister ==
    [Log("register", 2, 24, 0, 7, 109, 0, 209, 0, FALSE)
        EXCEPT !.block_hash = None]
LastNoBlockHashRegister ==
    [Log("register", 4, 25, 0, 8, 110, 0, 210, 0, FALSE)
        EXCEPT !.block_hash = None]

\* A second transfer of Register1's fid, one block after Transfer1
Transfer2 == Log("transfer", 3, 26, 0, 1, 111, 102, 0, 0, FALSE)

\* An Add log whose key is 20 bytes long
ShortKeyAdd ==
    [Log("add", 2, 28, 0, 1, 0, 0, 0, 0, FALSE)
        EXCEPT !.key = 7005, !.key_len = 20]

\* A Transfer log whose id is 2^64 + 1
OversizedTransfer ==
    [Log("transfer", 3, 27, 0, 1, 112, 101, 0, 0, FALSE)
        EXCEPT !.id_upper = <<0, 1>>]

CaseUpstreams ==
    { {Register1, NoBlockHashRegister},
      {NoBlockHashRegister, Register2},
      {Register1, Register2, LastNoBlockHashRegister},
      {Register1, Transfer1, Transfer2},
      {Register1, OversizedTransfer},
      {Register1, ShortKeyAdd} }

InitCases == chain \in CaseUpstreams /\ InitProcess

SpecCases == InitCases /\ [][Next]_vars

\* The hub process alone: backfill, ctrl-c, subscribe.  The timer of
\* subscribe keeps ticking and every await of sync is answered, so each
\* step of the loop that stays possible is taken.
NextHub ==
    \/ NewBlocks
    \/ HubStart
    \/ CtrlC
    \/ SubscribeTick
    \/ SubscribeUnwrap
    \/ CollectLogs
    \/ \E kind \in Kinds : SyncLogs(kind)
    \/ WindowEnd

\* SyncLogs(pc) as it shows on pc: the step of one kind of log hands over to
\* the next step of the window or panics.  SyncLogs(pc) is enabled in every
\* state with pc \in Kinds, and no other step of NextHub changes pc there.
SyncStep ==
    /\ pc \in Kinds
    /\ pc' \in {NextPc(pc), "panicked"}

SpecHub ==
    /\ Init
    /\ [][NextHub]_vars
    /\ WF_vars(SubscribeTick)
    /\ WF_vars(CollectLogs)
    /\ WF_pc(SyncStep)
    /\ WF_vars(WindowEnd)

-----------------------------------------------------------------------------
(* The RPC helpers of crates/eth/src/utils.rs and Indexer::get_latest_block *)
(* against a provider that answers a call with rate_limited times an error *)
(* whose text holds "429" and then with final.                             *)

GatewayFns == {"get_logs", "get_block_timestamp", "get_latest_block"}

\* What the provider ends with: the result, no such block, an error that
\* is no rate limit, and such an error whose text happens to hold "429"
\* (a block number, a port, a payload)
Finals == {"value", "none", "error", "error_429_text"}

\* e.to_string().contains("429")
TextContains429(response) == response \in {"429", "error_429_text"}

\* get_logs handing the rate-limit error to its caller
get_logs_NoRetry(response) ==
    CASE response = "value" -> "return_ok"
      [] OTHER -> "return_err"

\* One turn of get_logs' loop on the provider's answer
get_logs(response) ==
    CASE response = "value" -> "return_ok"
      [] TextContains429(response) -> "retry"
      [] OTHER -> "return_err"

\* One turn of get_block_timestamp's loop on the provider's answer
get_block_timestamp(response) ==
    CASE response = "value" -> "return_ok"
      [] response = "none" -> "return_err"
      [] TextContains429(response) -> "retry"
      [] OTHER -> "return_err"

\* get_latest_block: provider.get_block(Latest).await?.unwrap()
get_latest_block(response) ==
    CASE response = "value" -> "return_ok"
      [] response = "none" -> "panic"
      [] OTHER -> "return_err"

HelperStep(fn, response) ==
    CASE fn = "get_logs" -> get_logs(response)
      [] fn = "get_block_timestamp" -> get_block_timestamp(response)
      [] fn = "get_latest_block" -> get_latest_block(response)

GatewayCall ==
    /\ gw.status \in {"idle", "done"}
    /\ \E fn \in GatewayFns, n \in 0..MaxRateLimited, final \in Finals :
          /\ fn = "get_logs" => final # "none"
          /\ gw' = [status |-> "calling", fn |-> fn, rate_limited |-> n,
                    final |-> final, pending |-> n, attempts |-> 0,
                    delivered |-> 0, outcome |-> "none"]
    /\ UNCHANGED <<chain, latest, storeVars, idxVars, faults, histVars>>

\* The provider answers; the helper returns, or sleeps before its next turn
GatewayAnswer ==
    /\ gw.status = "calling"
    /\ gw.attempts <= MaxRateLimited + 1
    /\ LET response == IF gw.pending > 0 THEN "429" ELSE gw.final
           step == HelperStep(gw.fn, response)
           answered == [gw EXCEPT !.attempts = @ + 1,
                                  !.pending = IF @ > 0 THEN @ - 1 ELSE 0]
       IN  gw' = CASE step = "retry" ->
                        [answered EXCEPT !.status = "sleeping"]
                   [] step = "return_ok" ->
                        [answered EXCEPT !.status = "done",
                                         !.delivered = @ + 1,
                                         !.outcome = "ok"]
                   [] step = "return_err" ->
                        [answered EXCEPT !.status = "done",
                                         !.outcome = "err"]
                   [] step = "panic" ->
                        [answered EXCEPT !.status = "done",
                                         !.outcome = "panic"]
    /\ UNCHANGED <<chain, latest, storeVars, idxVars, faults, histVars>>

\* tokio::time::sleep(500ms) is over: continue
GatewayWake ==
    /\ gw.status = "sleeping"
    /\ gw' = [gw EXCEPT !.status = "calling"]
    /\ UNCHANGED <<chain, latest, storeVars, idxVars, faults, histVars>>

InitGateway == chain = {} /\ InitProcess

NextGateway == GatewayCall \/ GatewayAnswer \/ GatewayWake

SpecGateway == InitGateway /\ [][NextGateway]_vars

-----------------------------------------------------------------------------
(* Batches of many logs: the persist_many_*_logs of crates/eth and         *)
(* process_storage_registry_logs of lib/eth on batches around the sizes    *)
(* at which the bulk builders start a second statement.                    *)

\* time::to_farcaster_time on a time in seconds
to_farcaster_time(seconds) ==
    IF seconds < FarcasterEpochSeconds
    THEN [ok |-> FALSE, time |-> 0]
    ELSE [ok |-> TRUE, time |-> seconds - FarcasterEpochSeconds]

block_timestamp_to_farcaster_time(timestamp) == to_farcaster_time(timestamp)

\* lib/eth process_rent_log: Err on a log that does not parse or a
\* timestamp before the epoch; the allocation names its chain event by
\* transaction hash and log index
lib_process_rent_log(log, timestamp, uuid) ==
    LET fc == block_timestamp_to_farcaster_time(timestamp)
        expiry == fc.time + RentExpiryDays * 24 * 60 * 60
        body == [event_type |-> "Rent", to |-> log.to, from |-> None,
                 recovery_address |-> None, key |-> None,
                 units |-> log.units, expiry |-> expiry]
        event_row == ChainEventRow(
            OnChainEvent(EventTypeStorageRent, log, timestamp, body),
            log.units, uuid)
    IN  [status |-> IF log.wellformed /\ fc.ok THEN "ok" ELSE "err",
         event_row |-> event_row,
         derived |-> [rented_at |-> fc.time,
                      expires_at |-> expiry,
                      transaction_hash |-> HexEncode(log.transaction_hash),
                      log_index |-> log.log_index,
                      fid |-> log.id,
                      units |-> log.units,
                      payer |-> HexEncode(log.to)]]

\* zip(event_queries, allocation_queries): pairs up to the shorter list,
\* each pair executed event statement first
ZipQueries(event_queries, allocation_queries) ==
    [k \in 1..(2 * Min(Len(event_queries), Len(allocation_queries))) |->
        IF k % 2 = 1 THEN event_queries[(k + 1) \div 2]
        ELSE allocation_queries[k \div 2]]

\* The statements process_storage_registry_logs executes, in the order of
\* its loop over zip(event_queries, allocation_queries)
storage_registry_statements(logs, timestamps, uuid0) ==
    LET indexed == [i \in 1..Len(logs) |-> [log |-> logs[i], i |-> i]]
        taken == SelectSeq(indexed,
                     LAMBDA p : HasMetadata(p.log) /\ ~p.log.removed)
        processed == SelectSeq(
            [k \in 1..Len(taken) |->
                lib_process_rent_log(taken[k].log, timestamps[taken[k].i],
                                     uuid0 + k - 1)],
            LAMBDA r : r.status = "ok")
        event_queries == ChainEventRow_generate_bulk_insert_queries(
            [k \in 1..Len(processed) |-> processed[k].event_row])
        allocation_queries ==
            StorageAllocationRow_generate_bulk_insert_queries(
                [k \in 1..Len(processed) |-> processed[k].derived])
    IN  ZipQueries(event_queries, allocation_queries)

\* lib/eth process_storage_registry_logs: logs without metadata or marked
\* removed are passed over, logs that do not decode are skipped with a
\* warning, the rest goes into one transaction that is rolled back on the
\* first statement that fails
process_storage_registry_logs(tables, logs, timestamps, uuid0, fail_at) ==
    LET indexed == [i \in 1..Len(logs) |-> [log |-> logs[i], i |-> i]]
        taken == SelectSeq(indexed,
                     LAMBDA p : HasMetadata(p.log) /\ ~p.log.removed)
        out_of_bounds == \E k \in 1..Len(taken) :
                             taken[k].i > Len(timestamps)
        stmts == storage_registry_statements(logs, timestamps, uuid0)
        r == Transaction(tables, stmts,
                         IF fail_at > Len(stmts) + 1 THEN 0 ELSE fail_at)
    IN  IF out_of_bounds
        THEN [outcome |-> "index_panic", tables |-> tables]
        ELSE [outcome |-> IF r.ok THEN "ok" ELSE "write_err",
              tables |-> r.tables]

\* A batch of n logs of one kind in one block, for fids first .. first+n-1;
\* tainted batches begin with a log marked removed
BatchLogs(kind, first, n, tainted) ==
    [i \in 1..n |->
        [Log(kind, 10, 1000 + first + i - 1, i - 1, first + i - 1,
             900, 0, 800, 1, tainted /\ i = 1)
            EXCEPT !.key = 7000 + first + i - 1]]

\* Sizes around those at which the builders start a second statement
LibBatchSizes == {ChainEventRowsPerBatch,
                  ChainEventRowsPerBatch + ExtraRows,
                  StorageAllocationRowsPerBatch + ExtraRows}

BatchStarts == {1, 201}

BulkKinds == {"register", "add", "rent"}

BulkDone(by, kind, logs, outcome, tables, used_uuids, failed) ==
    /\ calls' = Append(calls, [by |-> by, a |-> 0, b |-> 0])
    /\ collected' = [NoLogs EXCEPT ![kind] = logs]
    /\ result' = outcome
    /\ chain_events' = tables.chain_events
    /\ fids' = tables.fids
    /\ signers' = tables.signers
    /\ storage_allocations' = tables.storage_allocations
    /\ next_uuid' = next_uuid + used_uuids
    /\ faults' = IF failed THEN faults - 1 ELSE faults
    /\ UNCHANGED <<chain, latest, pc, start_block, end_block, current_block,
                   block_timestamp_cache, histVars, gw>>

\* One call of a persist_many_*_logs of crates/eth on a batch that needs
\* two chain-event statements
BulkPersistMany ==
    /\ Len(calls) < MaxRuns
    /\ \E kind \in BulkKinds, first \in BatchStarts :
          LET n == ChainEventRowsPerBatch + ExtraRows
              logs == BatchLogs(kind, first, n, FALSE)
              r == persist_many_logs(kind, Tables, logs,
                                     fetch_event_timestamps(logs),
                                     next_uuid, 0)
          IN  BulkDone("persist_many_logs", kind, logs, r.outcome,
                       r.tables, n, FALSE)

\* One call of process_storage_registry_logs of lib/eth; the store may
\* fail the first allocation statement
BulkProcessStorageRegistryLogs ==
    /\ Len(calls) < MaxRuns
    /\ \E first \in BatchStarts, n \in LibBatchSizes, tainted \in BOOLEAN,
          fail_at \in {0, 2} :
          LET logs == BatchLogs("rent", first, n, tainted)
              r == process_storage_registry_logs(
                       Tables, logs, fetch_event_timestamps(logs),
                       next_uuid, fail_at)
          IN  /\ tainted => n = ChainEventRowsPerBatch + ExtraRows
              /\ fail_at > 0 => faults > 0 /\ r.outcome = "write_err"
              /\ BulkDone("process_storage_registry_logs", "rent", logs,
                          r.outcome, r.tables, n, fail_at > 0)

InitBulk == chain = {} /\ InitProcess

NextBulk == BulkPersistMany \/ BulkProcessStorageRegistryLogs

SpecBulk == InitBulk /\ [][NextBulk]_vars

-----------------------------------------------------------------------------
(* The single-log functions of crates/eth: persist_register_log and        *)
(* persist_add_log write a log's rows with one insert each, outside any    *)
(* transaction, the rows' byte fields bound to the query as they are.      *)

\* A Vec<u8> field of a row as a bound parameter
Bound(col) == Blob(col[2])

\* ChainEventRow::insert
ChainEventRow_insert(t, row) ==
    LET stored == [row EXCEPT !.block_hash = Bound(@),
                              !.transaction_hash = Bound(@),
                              !.body = Bound(@),
                              !.raw = Bound(@)]
    IN  IF ChainEventsConflict(t.chain_events, <<stored>>)
        THEN [ok |-> FALSE, t |-> t]
        ELSE [ok |-> TRUE,
              t |-> [t EXCEPT !.chain_events = @ \cup {stored}]]

\* FidRow::insert
FidRow_insert(t, row) ==
    LET stored == [row EXCEPT !.custody_address = Bound(@),
                              !.recovery_address = Bound(@)]
    IN  IF \/ FidsConflict(t.fids, <<stored>>)
           \/ ForeignKeyViolation(t.chain_events, <<stored>>)
        THEN [ok |-> FALSE, t |-> t]
        ELSE [ok |-> TRUE, t |-> [t EXCEPT !.fids = @ \cup {stored}]]

\* SignerRow::insert: a unique violation is told apart from other errors
SignerRow_insert(t, row) ==
    LET stored == [row EXCEPT !.key = Bound(@)]
    IN  IF SignersConflict(t.signers, <<stored>>)
        THEN [ok |-> FALSE, unique_violation |-> TRUE, t |-> t]
        ELSE IF ForeignKeyViolation(t.chain_events, <<stored>>)
        THEN [ok |-> FALSE, unique_violation |-> FALSE, t |-> t]
        ELSE [ok |-> TRUE, unique_violation |-> FALSE,
              t |-> [t EXCEPT !.signers = @ \cup {stored}]]

\* persist_register_log: process_register_log(..)?, event_row.insert(..)?,
\* fid_row.insert(..)?.  fail_at names the insert the store fails on its
\* own account (0: none).
persist_register_log(tables, log, timestamp, uuid, fail_at) ==
    LET p == process_register_log(log, timestamp, uuid)
        e == ChainEventRow_insert(tables, p.event_row)
        f == FidRow_insert(e.t, p.derived)
    IN  IF p.status # "ok"
        THEN [outcome |-> IF p.status = "err" THEN "decode_err"
                          ELSE "unwrap_none",
              tables |-> tables]
        ELSE IF fail_at = 1 \/ ~e.ok
        THEN [outcome |-> "write_err", tables |-> tables]
        ELSE IF fail_at = 2 \/ ~f.ok
        THEN [outcome |-> "write_err", tables |-> e.t]
        ELSE [outcome |-> "ok", tables |-> f.t]

\* persist_add_log: the signer insert's unique violation is logged and
\* skipped, any other error of it is returned
persist_add_log(tables, log, timestamp, uuid, fail_at) ==
    LET p == process_add_log(log, timestamp, uuid)
        e == ChainEventRow_insert(tables, p.event_row)
        g == SignerRow_insert(e.t, p.derived)
    IN  IF p.status # "ok"
        THEN [outcome |-> "unwrap_none", tables |-> tables]
        ELSE IF fail_at = 1 \/ ~e.ok
        THEN [outcome |-> "write_err", tables |-> tables]
        ELSE IF fail_at = 2 \/ (~g.ok /\ ~g.unique_violation)
        THEN [outcome |-> "write_err", tables |-> e.t]
        ELSE [outcome |-> "ok", tables |-> g.t]

\* Timestamps a caller hands over: that of the log's block, or 0 as the
\* test of persist_register_log does
TimestampArgs(log) == {0, BlockTimestamp(log.block_hash)}

SingleDone(by, log, r, failed) ==
    /\ calls' = Append(calls, [by |-> by, a |-> log.pos, b |-> log.pos])
    /\ result' = r.outcome
    /\ chain_events' = r.tables.chain_events
    /\ fids' = r.tables.fids
    /\ signers' = r.tables.signers
    /\ storage_allocations' = r.tables.storage_allocations
    /\ next_uuid' = next_uuid + 1
    /\ faults' = IF failed THEN faults - 1 ELSE faults
    /\ UNCHANGED <<chain, latest, pc, start_block, end_block, current_block,
                   collected, block_timestamp_cache, histVars, gw>>

PersistRegisterLog ==
    /\ Len(calls) < MaxRuns
    /\ \E log \in chain, fail_at \in 0..2 :
          /\ log.kind = "register"
          /\ \E timestamp \in TimestampArgs(log) :
                LET r == persist_register_log(Tables, log, timestamp,
                                              next_uuid, fail_at)
                IN  /\ fail_at > 0 => faults > 0 /\ r.outcome = "write_err"
                    /\ SingleDone("persist_register_log", log, r,
                                  fail_at > 0)

PersistAddLog ==
    /\ Len(calls) < MaxRuns
    /\ \E log \in chain, fail_at \in 0..2 :
          /\ log.kind = "add"
          /\ \E timestamp \in TimestampArgs(log) :
                LET r == persist_add_log(Tables, log, timestamp,
                                         next_uuid, fail_at)
                IN  /\ fail_at > 0 => faults > 0 /\ r.outcome = "write_err"
                    /\ SingleDone("persist_add_log", log, r, fail_at > 0)

NextSingle == PersistRegisterLog \/ PersistAddLog

SpecSingle == Init /\ [][NextSingle]_vars

-----------------------------------------------------------------------------
(* The bulk functions of crates/storage/src/db.rs that bind their values:  *)
(* one statement for each chunk, each on a connection of its own.          *)

BoundFns == {"ChainEventRow::bulk_insert", "FidRow::bulk_transfer",
             "SignerRow::bulk_remove_update"}

\* max_rows_per_batch of the function
RowsPerStatement(fn) ==
    CASE fn = "ChainEventRow::bulk_insert" -> ChainEventRowsPerBatch
      [] fn = "FidRow::bulk_transfer" -> TransfersPerBatch
      [] fn = "SignerRow::bulk_remove_update" -> RemoveUpdatesPerBatch

\* The values bound to the statement of a chunk: the push_bind calls of a
\* row of bulk_insert; for the updates the pair of each WHEN ? THEN ? and
\* then one more value for each row in the list of IN (..)
BoundValues(fn, chunk_len) ==
    CASE fn = "ChainEventRow::bulk_insert" -> 12 * chunk_len
      [] fn = "FidRow::bulk_transfer" -> 2 * chunk_len + chunk_len
      [] fn = "SignerRow::bulk_remove_update" -> 2 * chunk_len + chunk_len

\* slice::chunks(per): the lengths of the chunks of n rows
ChunkLengths(n, per) ==
    [i \in 1..((n + per - 1) \div per) |->
        IF i * per <= n THEN per ELSE n - (i - 1) * per]

\* Batch sizes around the number of rows whose values fill a statement
BoundBatchSizes ==
    {1, ChainEventRowsPerBatch + ExtraRows, MAX_PARAMS \div 3,
     MAX_PARAMS \div 3 + 1, TransfersPerBatch + ExtraRows}

\* The rows a bulk function of the store is called with
BoundRows(fn, first, n) ==
    LET kind == CASE fn = "ChainEventRow::bulk_insert" -> "register"
                  [] fn = "FidRow::bulk_transfer" -> "transfer"
                  [] fn = "SignerRow::bulk_remove_update" -> "remove"
        logs == BatchLogs(kind, first, n, FALSE)
        processed == [i \in 1..n |->
                         IF kind = "register"
                         THEN process_register_log(
                                  logs[i], BlockTimestamp(logs[i].block_hash),
                                  next_uuid + i - 1)
                         ELSE process_transfer_log(
                                  logs[i], BlockTimestamp(logs[i].block_hash),
                                  next_uuid + i - 1)]
    IN  CASE fn = "ChainEventRow::bulk_insert" ->
               [i \in 1..n |->
                   [processed[i].event_row EXCEPT
                       !.block_hash = Bound(@),
                       !.transaction_hash = Bound(@),
                       !.body = Bound(@),
                       !.raw = Bound(@)]]
          [] fn = "FidRow::bulk_transfer" ->
               [i \in 1..n |-> [fid |-> logs[i].id,
                                custody_address |-> Blob(logs[i].to)]]
          [] fn = "SignerRow::bulk_remove_update" ->
               [i \in 1..n |-> [key |-> Blob(logs[i].key),
                                remove_chain_event_id |-> next_uuid + i - 1]]

\* UPDATE signers SET remove_chain_event_id = CASE key WHEN ? THEN ? .. END
\* WHERE key IN (..)
UpdateRemoveChainEvent(table, updates) ==
    LET named(row) == {i \in 1..Len(updates) : updates[i].key = row.key}
        first(row) == CHOOSE i \in named(row) : \A j \in named(row) : i <= j
    IN  { IF named(row) = {} THEN row
          ELSE [row EXCEPT !.remove_chain_event_id =
                               updates[first(row)].remove_chain_event_id]
          : row \in table }

\* One call of a bulk function: the chunks in turn, the first statement
\* the store refuses is returned as the error
BulkBound ==
    /\ Len(calls) < MaxRuns
    /\ \E fn \in BoundFns, n \in BoundBatchSizes :
          LET first == Len(calls) + 1
              rows == BoundRows(fn, first, n)
              per == RowsPerStatement(fn)
              lengths == ChunkLengths(n, per)
              \* the store refuses a statement of more than MAX_PARAMS
              \* values
              refused == \E i \in 1..Len(lengths) :
                            BoundValues(fn, lengths[i]) > MAX_PARAMS
              r == ExecuteAll(Tables, Statements("insert_chain_events",
                                                 rows, per), 1, 0)
          IN  /\ calls' = Append(calls, [by |-> fn, a |-> first, b |-> n])
              /\ IF fn = "ChainEventRow::bulk_insert"
                 THEN /\ chain_events' = r.t.chain_events
                      /\ result' = IF r.ok THEN "ok" ELSE "write_err"
                      /\ next_uuid' = next_uuid + n
                      /\ UNCHANGED <<fids, signers>>
                 ELSE /\ result' = IF refused THEN "write_err" ELSE "ok"
                      /\ fids' = IF fn = "FidRow::bulk_transfer" /\ ~refused
                                 THEN UpdateCustodyAddress(fids, rows)
                                 ELSE fids
                      /\ signers' =
                             IF fn = "SignerRow::bulk_remove_update"
                                /\ ~refused
                             THEN UpdateRemoveChainEvent(signers, rows)
                             ELSE signers
                      /\ UNCHANGED <<chain_events, next_uuid>>
    /\ UNCHANGED <<chain, latest, storage_allocations, pc, start_block,
                   end_block, current_block, collected,
                   block_timestamp_cache, faults, histVars, gw>>

SpecBound == InitBulk /\ [][BulkBound]_vars

-----------------------------------------------------------------------------
(* The progress report at the top of each window of Indexer::sync, as     *)
(* src/lib/eth and src/crates/eth compute it                              *)

LibBarWidth == 50
CratesBarWidth == 20

\* Offsets from the deployment block of the start and end blocks
ProgressOffsets == {0, 1, 40, 1999, 2000, 2001, 4001, 6003, 100000}

\* (percent_complete * bar_width as f64).round() cast to an integer, with
\* percent_complete = (current_block - FARCASTER_START_BLOCK) as f64
\*                    / (end_block - FARCASTER_START_BLOCK) as f64.
\* 0.0 / 0.0 is NaN, which the cast turns into 0.
Progress(bar_width, current, end) ==
    IF end = FARCASTER_START_BLOCK
    THEN 0
    ELSE LET n == (current - FARCASTER_START_BLOCK) * bar_width
             d == end - FARCASTER_START_BLOCK
         \* f64::round of n / d: half away from zero
         IN  (2 * n + d) \div (2 * d)

\* The count given to " ".repeat(..), as an integer before it is stored:
\* bar_width - progress - 1 on usize in lib, (bar_width - progress -
\* 1).max(0) on i32 in crates
Spaces(fn, current, end) ==
    IF fn = "lib::Indexer::sync"
    THEN LibBarWidth - Progress(LibBarWidth, current, end) - 1
    ELSE LET width == CratesBarWidth
                          - Progress(CratesBarWidth, current, end) - 1
         IN  IF width < 0 THEN 0 ELSE width

\* Entry of sync(start_block, end_block) with
\* FARCASTER_START_BLOCK <= start_block <= end_block
ProgressEnter ==
    /\ pc = "idle"
    /\ \E fn \in {"lib::Indexer::sync", "crates::Indexer::sync"},
          a \in ProgressOffsets, b \in ProgressOffsets :
          /\ a <= b
          /\ calls' = Append(calls, [by |-> fn,
                                     a |-> FARCASTER_START_BLOCK + a,
                                     b |-> FARCASTER_START_BLOCK + b])
          /\ start_block' = FARCASTER_START_BLOCK + a
          /\ end_block' = FARCASTER_START_BLOCK + b
          /\ current_block' = FARCASTER_START_BLOCK + a
    /\ pc' = "progress"
    /\ UNCHANGED <<chain, latest, storeVars, collected,
                   block_timestamp_cache, result, faults, histVars, gw>>

\* The top of the loop body up to log::info!: a usize subtraction below
\* zero panics where overflow checks are compiled in and wraps elsewhere,
\* and " ".repeat of the wrapped count panics on the capacity.  The rest of
\* the window is left out: the loop goes on to current_block = end + 1.
ProgressReport ==
    /\ pc = "progress"
    /\ IF current_block > end_block
       THEN /\ pc' = "returned"
            /\ result' = "ok"
            /\ UNCHANGED current_block
       ELSE IF Spaces(calls[Len(calls)].by, current_block, end_block) < 0
       THEN /\ pc' = "panicked"
            /\ result' \in {"subtract_overflow", "capacity_overflow"}
            /\ UNCHANGED current_block
       ELSE /\ current_block' = current_block + BLOCK_INTERVAL + 1
            /\ UNCHANGED <<pc, result>>
    /\ UNCHANGED <<chain, latest, storeVars, start_block, end_block,
                   collected, block_timestamp_cache, calls, faults, histVars,
                   gw>>

SpecProgress == InitBulk /\ [][ProgressEnter \/ ProgressReport]_vars

-----------------------------------------------------------------------------
(* Properties *)

\* A chain_events row exists for the log
Persisted(log) ==
    \E e \in chain_events :
        /\ e.transaction_hash = HexEncode(log.transaction_hash)
        /\ e.log_index = log.log_index

\* C1: when a write fails while a window is persisted, nothing of that
\* window is visible in the store and get_start_block() is what it was
\* when the window began.
C1_WindowAllOrNothing ==
    (pc = "panicked" /\ result = "write_err") =>
        /\ Tables = window_begin.tables
        /\ GetStartBlock = window_begin.cursor

\* C2: sync(a, b) run twice against an initially empty store succeeds both
\* times and leaves the contents the first run left.
C2_ReplayIsIdempotent ==
    ( /\ Len(calls) = 2
      /\ calls[1].by = "sync"
      /\ calls[2] = calls[1]
      /\ first_run.done
      /\ faults = MaxFaults
      /\ latest = FirstHead
      /\ pc \in {"returned", "panicked"} ) =>
        /\ result = "ok"
        /\ Contents(Tables) = first_run.contents

\* The chain_events rows written for a log of the upstream
RowsOf(log) ==
    {e \in chain_events : /\ e.block_number = log.block_number
                          /\ e.transaction_index = log.transaction_index
                          /\ e.log_index = log.log_index}

\* C3: no two chain_events rows share transaction hash and log index, also
\* when a log is fetched again after a restart: a log of the upstream has
\* at most one row.
C3_OneRowPerLog ==
    /\ \A e1, e2 \in chain_events :
           (e1.transaction_hash = e2.transaction_hash
            /\ e1.log_index = e2.log_index) => e1 = e2
    /\ \A l \in chain : Cardinality(RowsOf(l)) <= 1

\* C3 witness: a second call fetched a log that is already stored and the
\* store refused it
C3_RefetchRefused ==
    /\ Len(calls) = 2
    /\ pc = "panicked"
    /\ result = "write_err"
    /\ faults = MaxFaults
    /\ \E k \in Kinds : \E i \in 1..Len(collected[k]) :
          Persisted(collected[k][i])

C5_NoLogSkipped ==
    ( /\ pc = "returned"
      /\ result = "ok"
      /\ Len(calls) >= 1
      /\ \A i \in 1..Len(calls) : calls[i].by = "hub" ) =>
        \A l \in chain : (Accepted(l) /\ l.pos <= end_block) => Persisted(l)

\* What a derived row says of the log it stems from: the reference to its
\* chain event, the fid, and the log's argument the row keeps
RowOrigin(row, type) ==
    <<EventRef(row), type, row.fid,
      IF "units" \in DOMAIN row THEN row.units
      ELSE IF "key" \in DOMAIN row THEN row.key
      ELSE row.registered_at>>

\* The same of a chain event, for rows that refer by id and by log
EventOrigins(e) ==
    LET body == e.body[2]
        kept == IF e.type = EventTypeStorageRent THEN body.units
                ELSE IF e.type = EventTypeSigner THEN HexEncode(body.key)
                ELSE e.block_timestamp
    IN  {<<ref, e.type, e.fid, kept>> : ref \in EventRefs({e})}

C7_RemovedNeverStored ==
    \A l \in chain :
        l.removed => /\ ~Persisted(l)
                     /\ \A f \in fids : f.fid # l.id

\* C8: a log that lacks block hash, block number, transaction hash,
\* transaction index or log index is rejected with a decode error: it is
\* not stored and the process does not panic.
C8_MissingMetadataRejected ==
    /\ result # "unwrap_none"
    /\ \A l \in chain : ~HasMetadata(l) => ~Persisted(l)

\* C9: for every n, a get-logs or get-block-by-hash call answered n times
\* with 429 and then with the result returns that result once, without
\* error, after n + 1 attempts.
C9_RetriedUntilAnswered ==
    /\ ( /\ gw.status = "done"
         /\ gw.fn \in {"get_logs", "get_block_timestamp"}
         /\ gw.final = "value" ) =>
           /\ gw.outcome = "ok"
           /\ gw.delivered = 1
           /\ gw.attempts = gw.rate_limited + 1
    /\ gw.status \in {"calling", "sleeping"} =>
           gw.delivered = 0 /\ gw.outcome = "none"

\* C9 witness: get-logs answered after the largest number of 429s
C9_AnsweredAfterRateLimits ==
    /\ gw.status = "done"
    /\ gw.fn = "get_logs"
    /\ gw.rate_limited = MaxRateLimited
    /\ gw.outcome = "ok"
    /\ gw.delivered = 1

\* C10: rate limiting of any upstream call, the latest-block query
\* included, is retried inside the gateway and never surfaces as an error.
C10_RateLimitNeverSurfaces ==
    (gw.status = "done" /\ gw.final = "value") => gw.outcome = "ok"

\* C11: an upstream error that is no rate-limit error is returned to the
\* caller of get-logs and get-block-by-hash on its first occurrence, without
\* retry and without sleep.
C11_OtherErrorsReturnedAtOnce ==
    ( /\ gw.fn \in {"get_logs", "get_block_timestamp"}
      /\ gw.rate_limited = 0
      /\ gw.final \in {"error", "error_429_text"}
      /\ gw.attempts >= 1 ) =>
        /\ gw.status = "done"
        /\ gw.outcome = "err"
        /\ gw.attempts = 1

\* The window that fetched the Remove log has had its removals handed to
\* persist_many_remove_logs
RemoveStepActed(log) ==
    /\ \E i \in 1..Len(collected["remove"]) : collected["remove"][i] = log
    /\ \/ pc \in {"admin_reset", "rent", "window_end"}
       \/ pc = "returned" /\ result = "ok"
       \/ result = "lookup_err"

\* C12: once an Add log for key K on fid F and a later Remove log for the
\* same K have been synced, the signers row of (F, K) has a remove-event
\* reference that is not null and a removed_at that is set and is not
\* below its added_at.
C12_RemovedSignerIsMarked ==
    (Persisted(Add1) /\ RemoveStepActed(Remove1)) =>
        \E r \in signers :
            /\ SignerKey(r) = <<Remove1.id, HexEncode(Remove1.key)>>
            /\ r.remove_chain_event_id # None
            /\ r.removed_at # None

\* C13: a Remove log whose key no signers row holds makes the sync of its
\* window fail with an error returned to the caller, and the removal is
\* neither skipped nor recorded as a chain event.
C13_UnknownKeyFailsTheWindow ==
    RemoveStepActed(RemoveUnknown) =>
        /\ pc = "returned"
        /\ result \notin {"none", "ok"}
        /\ ~Persisted(RemoveUnknown)

\* C14: after a Register(to = A, id = F, recovery = R) log and a later
\* Transfer(from = A, to = C, id = F) log have both been synced, and the
\* upstream has no other log of F, the store holds exactly one fids row of
\* F, with custody address C and recovery address R, and exactly two
\* chain_events rows of F.
C14_TransferMovesCustody ==
    ( /\ Persisted(Register1)
      /\ Persisted(Transfer1)
      /\ {l \in chain : l.id = Register1.id} = {Register1, Transfer1} ) =>
        /\ \E f \in fids :
              /\ {g \in fids : g.fid = Register1.id} = {f}
              /\ f.custody_address = HexEncode(Transfer1.to)
              /\ f.recovery_address = HexEncode(Register1.recovery)
        /\ Cardinality({e \in chain_events : e.fid = Register1.id}) = 2

C14_RegisterAndTransferSynced ==
    /\ Persisted(Register1)
    /\ Persisted(Transfer1)
    /\ {l \in chain : l.id = Register1.id} = {Register1, Transfer1}
    /\ Transfer1.from = Register1.to
    /\ Transfer1.to # Register1.to
    /\ pc = "returned"
    /\ result = "ok"

\* C15: persisting one Register log writes exactly one chain_events row,
\* which carries the log's fid, the id-register type, the chain id, block
\* number, block hash, transaction hash, transaction index and raw data,
\* and exactly one fids row, whose event reference is that row's id and
\* whose custody and recovery addresses are the log's to and recovery.
C15_RegisterWritesEventAndFid ==
    ( /\ Len(calls) = 1
      /\ calls[1].by = "persist_register_log"
      /\ result = "ok" ) =>
        \E log \in chain, e \in chain_events, f \in fids :
            /\ log.kind = "register"
            /\ log.pos = calls[1].a
            /\ chain_events = {e}
            /\ fids = {f}
            /\ e.fid = log.id
            /\ e.type = EventTypeIdRegister
            /\ e.chain_id = ChainId
            /\ e.block_number = log.block_number
            /\ e.block_hash = Blob(log.block_hash)
            /\ e.transaction_hash = Blob(log.transaction_hash)
            /\ e.transaction_index = log.transaction_index
            /\ e.raw = Blob(log.recovery)
            /\ f.fid = log.id
            /\ f.chain_event_id = e.id
            /\ f.custody_address = Blob(log.to)
            /\ f.recovery_address = Blob(log.recovery)

C15_OneRegisterPersisted ==
    /\ Len(calls) = 1
    /\ calls[1].by = "persist_register_log"
    /\ result = "ok"
    /\ Cardinality(chain_events) = 1
    /\ Cardinality(fids) = 1

\* C16: syncing the same Add log twice (same transaction hash and log
\* index, fetched again after a restart) succeeds both times without error
\* and leaves exactly one signers row of (fid, key) and exactly one
\* chain_events row of the log.
C16_DuplicateAddIsNoOp ==
    ( /\ chain = {Add1}
      /\ Len(calls) = 2
      /\ calls[1].by = "sync"
      /\ calls[2] = calls[1]
      /\ calls[1].a <= Add1.pos
      /\ Add1.pos <= calls[1].b
      /\ first_run.done
      /\ faults = MaxFaults
      /\ pc \in {"returned", "panicked"} ) =>
        /\ result = "ok"
        /\ Cardinality({r \in signers :
               SignerKey(r) = <<Add1.id, HexEncode(Add1.key)>>}) = 1
        /\ Cardinality(RowsOf(Add1)) = 1

\* C17: get_start_block() returns the highest block number present in
\* chain_events plus one when the table is not empty, and the contract's
\* deployment block when the table is empty.
C17_StartBlockFromStoredEvents ==
    ( /\ Len(calls) >= 1
      /\ calls[Len(calls)].by = "hub"
      /\ pc = "collect"
      /\ current_block = start_block ) =>
        start_block =
            IF chain_events = {} THEN FARCASTER_START_BLOCK
            ELSE SetMax({e.block_number : e \in chain_events}) + 1

\* C18: if one log of a window fails to decode, sync still completes the
\* window and persists every other well-formed log of it; only the
\* malformed log is absent from the store.
C18_MalformedLogSkipped ==
    ( /\ chain = {Register1, MalformedRegister}
      /\ \E i \in 1..Len(collected["register"]) :
            collected["register"][i] = MalformedRegister
      /\ pc \notin {"collect", "register", "stopped"}
      /\ Len(calls) = 1
      /\ faults = MaxFaults ) =>
        /\ pc # "panicked"
        /\ Persisted(Register1)
        /\ ~Persisted(MalformedRegister)

\* C19: if fetching logs or resolving a block timestamp fails with an
\* error that is no rate limit, sync stops the current window and returns
\* that error to its caller: it does not panic and it starts no later
\* window.
C19_FetchFailureReturned ==
    result \in {"err", "timestamp_err"} =>
        \/ pc = "returned"
        \/ pc = "panicked" /\ calls[Len(calls)].by = "subscribe"
                           /\ result = "err"

\* C20: if the latest-block query or the sync of a range fails during a
\* tick of subscribe, the loop keeps running and tries the same range
\* again on the next tick; it neither panics nor returns.
C20_SubscribeSurvivesFailures ==
    /\ pc # "subscribe_returned"
    /\ (Len(calls) >= 1 /\ calls[Len(calls)].by = "subscribe") =>
           pc # "panicked"

\* The get-logs ranges of the sync call in progress (or last ended)
WindowsOfCall == SelectSeq(requested, LAMBDA r : r.call = Len(calls))

\* C28: the windows requested by sync(start, end) are pairwise disjoint and
\* contiguous, each spans at most 2000 blocks, and their union is exactly
\* [start, end]: no get-logs request of the call has a to-block greater
\* than end.
C28_WindowsPartitionTheRange ==
    LET w == WindowsOfCall
    IN  /\ \A i \in 1..Len(w) :
              /\ w[i].from = IF i = 1 THEN start_block ELSE w[i - 1].to + 1
              /\ w[i].from <= w[i].to
              /\ w[i].to - w[i].from + 1 <= BLOCK_INTERVAL
              /\ w[i].to <= end_block
        /\ (pc = "returned" /\ result = "ok" /\ start_block <= end_block) =>
              /\ Len(w) >= 1
              /\ w[Len(w)].to = end_block

\* C27: within one sync call at most one window is in progress: the log
\* fetch of window N+1 does not begin before every write of window N has
\* committed.  The call is about to fetch a window after its first one
\* only in states where every log of the window before is in the store.
C27_NextFetchAfterCommit ==
    (pc = "collect" /\ current_block > start_block) =>
        /\ Len(WindowsOfCall) >= 1
        /\ current_block = WindowsOfCall[Len(WindowsOfCall)].to + 1
        /\ \A k \in Kinds : \A i \in 1..Len(collected[k]) :
              Persisted(collected[k][i])

C27_SecondWindowAboutToStart ==
    /\ pc = "collect"
    /\ current_block > start_block
    /\ \E k \in Kinds : Len(collected[k]) > 0 /\ k # "register"

\* The process was started once by Hub::start on an empty store and has
\* been in subscribe since
OneRun ==
    /\ Len(calls) >= 1
    /\ calls[1].by = "hub"
    /\ \A i \in 2..Len(calls) : calls[i].by = "subscribe"

\* C29: over a whole run (backfill, then subscribe ticks, the chain growing
\* in between) the block ranges passed to get-logs are pairwise disjoint,
\* so no log is fetched and persisted twice within the run.
C29_RangesOfARunDisjoint ==
    OneRun =>
        /\ \A i, j \in 1..Len(requested) :
              i < j => requested[i].to < requested[j].from
        /\ \A k \in Kinds : \A i \in 1..Len(collected[k]) :
              pc = k => ~Persisted(collected[k][i])

\* C30: the next-start block of the subscribe loop never decreases from
\* one tick to the next, even if the upstream reports a latest block lower
\* than one it reported on an earlier tick.  A tick starts at calls[i].a
\* and leaves calls[i].b + 1 as the next start.
C30_NextStartNeverDecreases ==
    OneRun =>
        \A i \in 2..Len(calls) :
            (i < Len(calls) \/ (pc = "returned" /\ result = "ok")) =>
                calls[i].b + 1 >= calls[i].a

\* C22: a cancellation (shutdown) request delivered to the subscribe loop
\* stops the loop, and takes effect only between windows.  After the
\* request no tick of the loop runs.
C22_ShutdownStopsSubscribe ==
    shutdown => \A i \in 1..Len(calls) : calls[i].by # "subscribe"

\* The call of Hub::start's backfill the running subscribe follows (0:
\* Hub::start has not run)
LastHubCall ==
    LET hub == {i \in 1..Len(calls) : calls[i].by = "hub"}
    IN  IF hub = {} THEN 0 ELSE SetMax(hub)

\* The ticks since the backfill each begin at the block after the range
\* of the call before
TicksContiguous ==
    \A i \in (LastHubCall + 1)..Len(calls) :
        calls[i].by = "subscribe" /\ calls[i].a = calls[i - 1].b + 1

\* Every block from subscribe's start block up to b lies in the range of a
\* tick that has returned Ok: the ticks are contiguous and one of them, or
\* the backfill when b is below the start block, ends at b or later
CoveredByTicks(b) ==
    /\ LastHubCall > 0
    /\ TicksContiguous
    /\ \E i \in LastHubCall..Len(calls) :
          /\ b <= calls[i].b
          /\ i < Len(calls) \/ (pc = "returned" /\ result = "ok")

\* A call of the run has failed
CallFailed ==
    \/ pc \in {"panicked", "subscribe_returned"}
    \/ result \notin {"none", "ok"}

C23_RentExpiryFromBlockTimestamp ==
    \A e \in chain_events : \A r \in storage_allocations :
        (e.type = EventTypeStorageRent /\ r.chain_event_id = e.id) =>
            LET rent_timestamp == BlockTimestamp(e.block_hash[2])
                expiry == rent_timestamp + RentPeriodDays * 24 * 60 * 60
            IN  /\ e.body[2].expiry = expiry
                /\ r.expires_at = expiry
                /\ r.rented_at = rent_timestamp

\* The window that fetched the AdminReset log has had its admin resets
\* handed to persist_many_admin_reset_logs
AdminResetStepActed(log) ==
    /\ \E i \in 1..Len(collected["admin_reset"]) :
          collected["admin_reset"][i] = log
    /\ \/ pc \in {"rent", "window_end"}
       \/ pc = "returned" /\ result = "ok"
       \/ result = "lookup_err"

\* C24: after an AdminReset log for an existing signer key has been synced,
\* the signers row of that key still exists and has its remove-event
\* reference set; no Remove or AdminReset deletes a signers row.
C24_AdminResetMarksSigner ==
    (Persisted(Add1) /\ AdminResetStepActed(AdminReset1)) =>
        \E r \in signers :
            /\ SignerKey(r) = <<AdminReset1.id, HexEncode(AdminReset1.key)>>
            /\ r.remove_chain_event_id # None

C26_RowsNeverDeletedOrChanged ==
    [][ /\ chain_events \subseteq chain_events'
        /\ storage_allocations \subseteq storage_allocations'
        /\ \A f \in fids : \E g \in fids' : g.fid = f.fid
        /\ \A r \in signers : \E q \in signers' : SignerKey(q) = SignerKey(r)
      ]_vars

C26_UpdatedInPlaceBesideKeptRows ==
    /\ Persisted(Register1)
    /\ Persisted(Transfer1)
    /\ Persisted(Rent1)
    /\ storage_allocations # {}
    /\ \E f \in fids : /\ f.fid = Transfer1.id
                       /\ f.custody_address = HexEncode(Transfer1.to)
    /\ pc = "returned"
    /\ result = "ok"

\* C31: every persisted chain event's block_timestamp is the upstream
\* timestamp of the block its own block hash names, for every batch of logs,
\* batches in which some logs have no block hash included.
C31_TimestampOfOwnBlock ==
    \A e \in chain_events :
        e.block_timestamp = BlockTimestamp(e.block_hash[2])

C31_PersistedBesideHashlessLog ==
    /\ \E i \in 1..Len(collected["register"]) :
          collected["register"][i] = LastNoBlockHashRegister
    /\ Persisted(Register1)
    /\ Persisted(Register2)
    /\ pc \notin Kinds

\* The Transfer and Recover logs of a fid that have been synced
SyncedMoves(fid) ==
    {l \in chain : /\ l.kind \in {"transfer", "recovery"}
                   /\ l.id = fid
                   /\ Persisted(l)}

\* C32: after a window has been persisted, each fid's custody address is
\* the `to` address of the Transfer or Recover log with the greatest (block
\* number, log index) for that fid among the logs synced so far, several
\* such logs of one fid in one window or one statement included.
C32_CustodyOfLatestMove ==
    (pc = "window_end" \/ (pc = "returned" /\ result = "ok")) =>
        \A f \in fids :
            LET moves == SyncedMoves(f.fid)
                last == CHOOSE l \in moves : \A m \in moves : ~LogLess(l, m)
            IN  moves # {} => f.custody_address = HexEncode(last.to)

\* Every row of a derived statement refers to a chain event that a
\* statement before it has inserted
WrittenAfterEvents(stmts) ==
    \A k \in 1..Len(stmts) :
        stmts[k].op # "insert_chain_events" =>
            \A row \in Range(stmts[k].rows) :
                \E j \in 1..(k - 1) :
                    /\ stmts[j].op = "insert_chain_events"
                    /\ EventRef(row) \in EventRefs(Range(stmts[j].rows))

\* The statements the last bulk call has executed on its batch
StatementsOfLastBatch ==
    LET by == calls[Len(calls)].by
        kind == CHOOSE k \in Kinds : Len(collected[k]) > 0
        logs == collected[kind]
        timestamps == fetch_event_timestamps(logs)
        uuid0 == next_uuid - Len(logs)
    IN  IF by = "process_storage_registry_logs"
        THEN storage_registry_statements(logs, timestamps, uuid0)
        ELSE PersistStatements(kind,
                 ProcessedLogs(kind, logs, timestamps, uuid0))

\* C33: within the persistence of a window, every derived-row write is
\* executed after the chain_events row it refers to has been written, for
\* any number of logs, the event rows and the derived rows being split into
\* different numbers of statements included.
C33_DerivedWrittenAfterItsEvent ==
    ( /\ Len(calls) >= 1
      /\ calls[Len(calls)].by \in {"persist_many_logs",
                                    "process_storage_registry_logs"}
      /\ result \in {"ok", "write_err"} ) =>
        WrittenAfterEvents(StatementsOfLastBatch)

\* C34: for every batch size, each SQL statement of the bulk insert and
\* bulk update functions carries at most 999 bound values, every value
\* bound to the statement counted.
C34_AtMost999BoundValues ==
    \A i \in 1..Len(calls) :
        calls[i].by \in BoundFns =>
            LET lengths == ChunkLengths(calls[i].b,
                                        RowsPerStatement(calls[i].by))
            IN  \A k \in 1..Len(lengths) :
                    BoundValues(calls[i].by, lengths[k]) <= MAX_PARAMS

\* C35: the block-timestamp cache is empty when a window begins and when
\* sync has returned, with Ok or with Err, and every hash it holds is the
\* hash of a block of the window being synced
C35_CacheOfThisWindowOnly ==
    /\ pc \in {"collect", "returned"} => block_timestamp_cache = {}
    /\ \A h \in block_timestamp_cache :
           \E l \in chain :
               /\ l.block_hash = h
               /\ l.pos \in current_block..(current_block + BLOCK_INTERVAL)

\* A second window begins after the first one fetched timestamps
C35_SecondWindowAfterFetches ==
    /\ pc = "collect"
    /\ current_block > start_block
    /\ chain_events # {}
    /\ block_timestamp_cache = {}

\* C36: a log whose fid does not fit the width it is converted to is
\* rejected with a decode error: decoding does not panic and no row of the
\* log is stored
C36_OversizedIsDecodeError ==
    /\ result # "cast_panic"
    /\ \A l \in chain : ~FitsU32(l.id_upper) => ~Persisted(l)

\* C37: an Add log whose key is not 32 bytes long is rejected: no
\* chain_events row and no signers row is written for it
C37_WrongLengthKeyRejected ==
    \A l \in chain :
        (l.kind = "add" /\ l.key_len # Ed25519KeyLength) =>
            /\ ~Persisted(l)
            /\ \A r \in signers : r.key # HexEncode(l.key)

\* C38: for each window one get-logs request is issued for each of the
\* three contracts, its filter holding all the signature topics of the
\* contract's events
C38_OneRequestPerContract ==
    \A i \in 1..Len(requested) :
        LET issued == requested[i].filters
            contracts == {ContractOf(k) : k \in Kinds}
        IN  /\ Cardinality(issued) = Cardinality(contracts)
            /\ \A c \in contracts :
                   \E f \in issued :
                       /\ f.address = c
                       /\ f.topic0 = {k \in Kinds : ContractOf(k) = c}

\* C39: after the backfill the subscribe loop makes progress while the
\* server is serving: a block the chain has produced is covered by a sync
\* call without the server having to shut down first.  The server is
\* serving when Hub::start's backfill has returned Ok and no ctrl-c has been
\* received.
C39_SyncedWhileServing ==
    \A b \in {FirstHead, LaterHead} :
        (/\ ~shutdown
         /\ pc = "returned"
         /\ result = "ok"
         /\ Len(calls) >= 1
         /\ calls[Len(calls)].by = "hub"
         /\ Len(calls) < MaxRuns
         /\ latest = b) ~>
            \/ CallFailed
            \/ CoveredByTicks(b)
            \/ shutdown

\* C40: for deployment block <= start <= end the progress report of every
\* window stays within the non-negative integers: no block-number
\* difference and no width of the progress bar goes below zero, also when
\* the current block is the end block
C40_ProgressNeverUnderflows ==
    /\ result \notin {"subtract_overflow", "capacity_overflow"}
    /\ (pc = "progress" /\ current_block <= end_block) =>
           /\ current_block - FARCASTER_START_BLOCK >= 0
           /\ end_block - FARCASTER_START_BLOCK >= 0
           /\ current_block - start_block >= 0
           /\ Spaces(calls[Len(calls)].by, current_block, end_block) >= 0

====
